---- MODULE Spec2Model ----
(***************************************************************************)
(* A model of the Eva assistant backend (diceyalok/eva-ai-assistant):      *)
(* the Redis rate limiter and cost guard (backend/utils), the model cache, *)
(* the memory store, the LoRA adapter service, the AI router and the       *)
(* Telegram gateway (backend/core).  Each component has its own            *)
(* specification over the shared variables; a component's actions leave    *)
(* the other components' variables unchanged.                              *)
(***************************************************************************)
EXTENDS Integers, Sequences, FiniteSets, TLC

VARIABLES
    \* ---- utils/rate_limit.py ----
    now,        \* int(time.time()), the wall clock in seconds
    zset,       \* Redis sorted sets: redis key -> set of [member, score]
    expireAt,   \* Redis TTL of each rate-limit key: the time it expires (0: no key)
    admitted,   \* history: redis key -> times of the is_allowed calls that returned True
    rlLast,     \* the last is_allowed call: [key, type, at, result, raised (the Redis command that raised)]
    rlCalls,    \* number of is_allowed calls made (bounded)
    rlTicks,    \* number of clock advances made (bounded)
    rlTask,     \* each concurrent is_allowed call: [pc, key, type, now]
    rlReset,    \* the refused caller: [key, type, at, reset (what get_reset_time returned), seen, retried, quiet, result]
    \* ---- utils/cost_guard.py ----
    cost,       \* Redis cost totals of the current day and month
    cgLast,     \* the last check_budget call: its arguments, the totals it read, its result
    cgOps,      \* number of cost guard operations made (bounded)
    cgRedisUp,  \* the Redis store answers (FALSE: every Redis command raises)
    cgDownLast, \* the last check_budget call made with Redis down: [user, est, ok, msg]
    cgReq,      \* each concurrent request: [pc, user, cost], from its check to its record
    \* ---- core/model_manager.py ----
    models,     \* self._models: model name -> the cached instance (0: not cached)
    locks,      \* self._loading_locks: model name -> "none" (no lock yet), "free" or the holder
    mmTask,     \* each get_embedding_model call: [pc, name, ret]
    mmLoaded,   \* history: model name -> number of instances the loader has created
    mmReturned, \* history: model name -> the instances calls have returned
    mmCleared,  \* history: number of clear_cache calls made
    \* ---- core/memory_service.py ----
    chroma,     \* the ChromaDB collection: a set of [id, user, type, importance]
    cache,      \* Redis lists recent_context:<hash>: hashed user -> cached memories, newest first
    memStored,  \* history: user -> ids of the memories stored for the user, newest first
    memDisturbed, \* history: user -> the cache was deleted, expired or missed a write
    memForgotten, \* history: user -> ids stored before a delete_user_data that succeeded
    memFaults,  \* number of cache deletions, expiries and failed cache writes (bounded)
    memLast,    \* the query just made, if the last operation was one: [op, user, limit, before, result]
    \* ---- core/lora_service.py, core/ai_service.py, core/telegram_gateway.py ----
    gwInit,     \* TelegramGateway._initialized
    aiInit,     \* AIService._initialized
    openai_client, \* AIService._openai_client is set
    lora,       \* LoRAService: [initialized, current_adapter, loaded: personality -> BOOLEAN]
    user_tones, \* TelegramGateway.user_tones: user -> tone ("unset": no entry)
    rate_limits, \* TelegramGateway.rate_limits: user -> action -> time of the last one allowed (0: none)
    proc,       \* each coroutine: where it is, its local variables, and the calls it has made
    toneSet,    \* history: user -> the tone of the user's last valid /tone (friendly: none yet)
    toneKept,   \* history: the same, friendly again once a /forget of the user has cleared it
    forgetting, \* the users with a /forget that awaits the memory and voice services
    gwUpdates,  \* number of Telegram updates handled: messages, /tone and /forget commands (bounded)
    accepted,   \* history: user -> action -> the times at which _check_rate_limit allowed one
    healthPassed, \* history: a health check of vLLM has passed
    bootCalls,  \* history, kept until the start-up is over: the vLLM requests of its lora_service.initialize()
    \* ---- main.py, eva_webhook.py: the /webhook endpoints ----
    webhook_secret, \* TELEGRAM_WEBHOOK_SECRET ("none": not set)
    telegram_app,   \* main.py: telegram_app is set
    services_initialized, \* eva_webhook.py: services_initialized
    whLast,     \* the last /webhook request: [entry, header, status, processed]
    whProcessed, \* history: [entry, header] of the requests whose update went to process_update
    whRequests  \* number of /webhook requests made (bounded)

rlVars == <<now, zset, expireAt, admitted, rlLast, rlCalls, rlTicks, rlTask, rlReset>>
cgVars == <<cost, cgLast, cgOps, cgRedisUp, cgDownLast, cgReq>>
mmVars == <<models, locks, mmTask, mmLoaded, mmReturned, mmCleared>>
memVars == <<chroma, cache, memStored, memDisturbed, memForgotten, memFaults, memLast>>
gwVars == <<gwInit, aiInit, openai_client, lora, user_tones, rate_limits, proc,
           toneSet, toneKept, forgetting, gwUpdates, accepted, bootCalls, healthPassed>>
whVars == <<webhook_secret, telegram_app, services_initialized, whLast, whProcessed, whRequests>>
vars == <<rlVars, cgVars, mmVars, memVars, gwVars, whVars>>

\* What each component leaves alone.
notRL == <<cgVars, mmVars, memVars, gwVars, whVars>>
notCG == <<rlVars, mmVars, memVars, gwVars, whVars>>
notMM == <<rlVars, cgVars, memVars, gwVars, whVars>>
notMem == <<rlVars, cgVars, mmVars, gwVars, whVars>>
notGW == <<rlVars, cgVars, mmVars, memVars, whVars>>
notWH == <<rlVars, cgVars, mmVars, memVars, gwVars>>

Min(a, b) == IF a <= b THEN a ELSE b
Max(a, b) == IF a >= b THEN a ELSE b

(***************************************************************************)
(* utils/rate_limit.py: RateLimiter                                        *)
(***************************************************************************)

\* Bounds of the rate limiter model.
MaxCalls == 4
MaxTicks == 3

\* The clock's reading when the model starts (past every window and cooldown).
StartTime == 100

Keys == {"u1"}
LimitTypes == {"user", "global", "voice", "gpt"}
\* The clock advances by one second or by just under a window.
TickSteps == {1, 59}

\* self.limits and self.windows of RateLimiter.__init__
limits == [user |-> 10, global |-> 100, voice |-> 3, gpt |-> 5]
windows == [user |-> 60, global |-> 60, voice |-> 60, gpt |-> 60]

\* self.limits.get(limit_type, 1), self.windows.get(limit_type, 1)
LimitOf(limit_type) == IF limit_type \in DOMAIN limits THEN limits[limit_type] ELSE 1
WindowOf(limit_type) == IF limit_type \in DOMAIN windows THEN windows[limit_type] ELSE 1

\* redis_key = f"rate_limit:{limit_type}:{key}"
RedisKey(limit_type, key) == <<limit_type, key>>
RedisKeys == {RedisKey(ty, k) : ty \in LimitTypes, k \in Keys}

\* The is_allowed calls that run side by side, and a call that has not started.
RLTasks == {"t1", "t2"}
\* The limit types of the concurrent calls: the two with the smallest limits.
ConcurrentTypes == {"voice", "gpt"}
IdleCall == [pc |-> "idle", key |-> "none", type |-> "none", now |-> 0]

\* A key whose TTL has run out holds nothing.
Live(z, exp, t) == IF exp # 0 /\ t >= exp THEN {} ELSE z

\* ZREMRANGEBYSCORE key lo hi: drop the entries with lo <= score <= hi.
zremrangebyscore(z, lo, hi) == {e \in z : ~(lo <= e.score /\ e.score <= hi)}

\* ZCARD key
zcard(z) == Cardinality(z)

\* ZADD key {member: score}: a sorted set holds a member once; adding a member
\* that is there already only updates its score.
zadd(z, member, score) ==
    {e \in z : e.member # member} \cup {[member |-> member, score |-> score]}

\* The member is_allowed adds for a call at time t: str(now).
MemberOf(t) == t

\* is_allowed(key, limit_type) at time t on sorted set z (Redis available):
\* the pipeline (ZREMRANGEBYSCORE, ZCARD), then ZADD and EXPIRE when under the limit.
is_allowed(z, exp, limit_type, t) ==
    LET limit == LimitOf(limit_type)
        window == WindowOf(limit_type)
        cleaned == zremrangebyscore(Live(z, exp, t), 0, t - window)
        current_count == zcard(cleaned)
    IN  IF current_count < limit
        THEN [result |-> TRUE, z |-> zadd(cleaned, MemberOf(t), t), exp |-> t + window + 1]
        ELSE [result |-> FALSE, z |-> cleaned, exp |-> exp]

\* is_allowed with an except clause that denies.
is_allowed_except_closed == FALSE

\* is_allowed's except clause: the failure is logged and the request allowed.
is_allowed_except == TRUE

\* The limit types of the calls made while Redis fails: the smallest limit and
\* the default one.
FailingTypes == {"voice", "gpt"}

\* The Redis commands of is_allowed: the pipeline's execute, ZADD, EXPIRE.
RedisCommands == {"pipeline", "zadd", "expire"}

\* is_allowed(key, limit_type) at time t when Redis command `failing` raises if
\* it is issued.  The commands before it have taken effect; raised is the command
\* that raised ("none" when the call returned before issuing it).
is_allowed_failing(z, exp, limit_type, t, failing) ==
    LET limit == LimitOf(limit_type)
        window == WindowOf(limit_type)
        cleaned == zremrangebyscore(Live(z, exp, t), 0, t - window)
        current_count == zcard(cleaned)
    IN  IF failing = "pipeline"
        THEN [result |-> is_allowed_except, z |-> z, exp |-> exp, raised |-> "pipeline"]
        ELSE IF current_count >= limit
        THEN [result |-> FALSE, z |-> cleaned, exp |-> exp, raised |-> "none"]
        ELSE IF failing = "zadd"
        THEN [result |-> is_allowed_except, z |-> cleaned, exp |-> exp, raised |-> "zadd"]
        ELSE [result |-> is_allowed_except, z |-> zadd(cleaned, MemberOf(t), t),
              exp |-> IF exp # 0 /\ t >= exp THEN 0 ELSE exp, raised |-> "expire"]

\* ZRANGE key 0 0 WITHSCORES: the entry of lowest score, if the set has one.
zrange_first(z) == {e \in z : \A f \in z : e.score <= f.score}

\* get_reset_time(key, limit_type) at time t on sorted set z: the score of the
\* oldest entry plus the window, or the current time when the set is empty.
get_reset_time(z, exp, limit_type, t) ==
    LET window == WindowOf(limit_type)
        oldest_entries == zrange_first(Live(z, exp, t))
    IN  IF oldest_entries # {}
        THEN (CHOOSE e \in oldest_entries : TRUE).score + window
        ELSE t

\* No caller has been refused yet.
NoReset == [key |-> "none", type |-> "none", at |-> 0, reset |-> 0, seen |-> 0,
            retried |-> FALSE, quiet |-> FALSE, result |-> FALSE]

RLInit ==
    /\ now = StartTime
    /\ zset = [rk \in RedisKeys |-> {}]
    /\ expireAt = [rk \in RedisKeys |-> 0]
    /\ admitted = [rk \in RedisKeys |-> <<>>]
    /\ rlLast = [key |-> "none", type |-> "none", at |-> 0, result |-> FALSE, raised |-> "none"]
    /\ rlCalls = 0
    /\ rlTicks = 0
    /\ rlTask = [t \in RLTasks |-> IdleCall]
    /\ rlReset = NoReset

\* One call of RateLimiter.is_allowed(key, limit_type), calls made one at a time.
IsAllowed(key, limit_type) ==
    /\ rlCalls < MaxCalls
    /\ LET rk == RedisKey(limit_type, key)
           r == is_allowed(zset[rk], expireAt[rk], limit_type, now)
       IN  /\ zset' = [zset EXCEPT ![rk] = r.z]
           /\ expireAt' = [expireAt EXCEPT ![rk] = r.exp]
           /\ admitted' = [admitted EXCEPT ![rk] = IF r.result THEN Append(@, now) ELSE @]
           /\ rlLast' = [key |-> key, type |-> limit_type, at |-> now, result |-> r.result,
                        raised |-> "none"]
    /\ rlCalls' = rlCalls + 1
    /\ UNCHANGED <<now, rlTicks, rlTask, rlReset>>
    /\ UNCHANGED notRL

\* One call of RateLimiter.is_allowed(key, limit_type) during which the Redis
\* command `failing` raises if the call issues it.
IsAllowedFailing(key, limit_type, failing) ==
    /\ rlCalls < MaxCalls
    /\ LET rk == RedisKey(limit_type, key)
           r == is_allowed_failing(zset[rk], expireAt[rk], limit_type, now, failing)
       IN  /\ zset' = [zset EXCEPT ![rk] = r.z]
           /\ expireAt' = [expireAt EXCEPT ![rk] = r.exp]
           /\ admitted' = [admitted EXCEPT ![rk] = IF r.result THEN Append(@, now) ELSE @]
           /\ rlLast' = [key |-> key, type |-> limit_type, at |-> now, result |-> r.result,
                         raised |-> r.raised]
    /\ rlCalls' = rlCalls + 1
    /\ UNCHANGED <<now, rlTicks, rlTask, rlReset>>
    /\ UNCHANGED notRL

\* time.time() moves on.
Tick(d) ==
    /\ rlTicks < MaxTicks
    /\ now' = now + d
    /\ rlTicks' = rlTicks + 1
    /\ UNCHANGED <<zset, expireAt, admitted, rlLast, rlCalls, rlTask, rlReset>>
    /\ UNCHANGED notRL

\* A concurrent call of is_allowed(key, limit_type) starts: it reads the clock and
\* executes its pipeline (ZREMRANGEBYSCORE, ZCARD) as one transaction.  Over the
\* limit it returns False; under it, it goes on to its ZADD.
PipelineExecute(t, key, limit_type) ==
    /\ rlCalls < MaxCalls
    /\ rlTask[t].pc = "idle"
    /\ LET rk == RedisKey(limit_type, key)
           cleaned == zremrangebyscore(Live(zset[rk], expireAt[rk], now), 0, now - WindowOf(limit_type))
           current_count == zcard(cleaned)
       IN  /\ zset' = [zset EXCEPT ![rk] = cleaned]
           /\ IF current_count < LimitOf(limit_type)
              THEN /\ rlTask' = [rlTask EXCEPT ![t] = [pc |-> "zadd", key |-> key,
                                                       type |-> limit_type, now |-> now]]
                   /\ UNCHANGED rlLast
              ELSE /\ rlLast' = [key |-> key, type |-> limit_type, at |-> now, result |-> FALSE,
                                raised |-> "none"]
                   /\ UNCHANGED rlTask
    /\ rlCalls' = rlCalls + 1
    /\ UNCHANGED <<now, expireAt, admitted, rlTicks, rlReset>>
    /\ UNCHANGED notRL

\* The call's ZADD of {str(now): now}, now being the clock it read when it started.
Zadd(t) ==
    /\ rlTask[t].pc = "zadd"
    /\ LET c == rlTask[t]
           rk == RedisKey(c.type, c.key)
       IN  zset' = [zset EXCEPT ![rk] = zadd(Live(@, expireAt[rk], now), MemberOf(c.now), c.now)]
    /\ expireAt' = [expireAt EXCEPT ![RedisKey(rlTask[t].type, rlTask[t].key)] =
                        IF @ # 0 /\ now >= @ THEN 0 ELSE @]
    /\ rlTask' = [rlTask EXCEPT ![t].pc = "expire"]
    /\ UNCHANGED <<now, admitted, rlLast, rlCalls, rlTicks, rlReset>>
    /\ UNCHANGED notRL

\* The call's EXPIRE of window + 1 seconds, and its return of True.
Expire(t) ==
    /\ rlTask[t].pc = "expire"
    /\ LET c == rlTask[t]
           rk == RedisKey(c.type, c.key)
       IN  /\ expireAt' = [expireAt EXCEPT ![rk] = now + WindowOf(c.type) + 1]
           /\ admitted' = [admitted EXCEPT ![rk] = Append(@, c.now)]
           /\ rlLast' = [key |-> c.key, type |-> c.type, at |-> c.now, result |-> TRUE,
                         raised |-> "none"]
    /\ rlTask' = [rlTask EXCEPT ![t] = IdleCall]
    /\ UNCHANGED <<now, zset, rlCalls, rlTicks, rlReset>>
    /\ UNCHANGED notRL

(***************************************************************************)
(* utils/cost_guard.py: CostGuard                                          *)
(***************************************************************************)

\* Bound of the cost guard model: the number of operations.
MaxCostOps == 4

Users == {"u1", "u2"}

\* self.limits of CostGuard.__init__ (INR)
daily_user == 50
monthly_user == 500
daily_global == 5000
monthly_global == 20000

\* Costs recorded and estimates asked for, in INR.
CostSteps == {30, 480, 4980, 19980}
Estimates == {0, 20, 21}

\* get_current_costs(user_id): MGET of the four keys of today and this month
\* (a missing key reads as 0).
get_current_costs(c, user_id) ==
    [user_daily |-> c.user_daily[user_id],
     user_monthly |-> c.user_monthly[user_id],
     global_daily |-> c.global_daily,
     global_monthly |-> c.global_monthly]

\* check_budget with the daily test off by one: a request that brings the user's
\* daily total to exactly the limit is refused.
check_budget_offbyone(current_costs, estimated_cost) ==
    IF current_costs.user_daily + estimated_cost >= daily_user
    THEN <<FALSE, "Daily limit exceeded">>
    ELSE IF current_costs.user_monthly + estimated_cost > monthly_user
    THEN <<FALSE, "Monthly limit exceeded">>
    ELSE IF current_costs.global_daily + estimated_cost > daily_global
    THEN <<FALSE, "System daily limit exceeded">>
    ELSE IF current_costs.global_monthly + estimated_cost > monthly_global
    THEN <<FALSE, "System monthly limit exceeded">>
    ELSE <<TRUE, "Budget available">>

\* check_budget(user_id, estimated_cost) on the totals read
check_budget(current_costs, estimated_cost) ==
    IF current_costs.user_daily + estimated_cost > daily_user
    THEN <<FALSE, "Daily limit exceeded">>
    ELSE IF current_costs.user_monthly + estimated_cost > monthly_user
    THEN <<FALSE, "Monthly limit exceeded">>
    ELSE IF current_costs.global_daily + estimated_cost > daily_global
    THEN <<FALSE, "System daily limit exceeded">>
    ELSE IF current_costs.global_monthly + estimated_cost > monthly_global
    THEN <<FALSE, "System monthly limit exceeded">>
    ELSE <<TRUE, "Budget available">>

\* record_usage: the pipeline of four INCRBYFLOAT by total_cost
record_usage(c, user_id, total_cost) ==
    [user_daily |-> [c.user_daily EXCEPT ![user_id] = @ + total_cost],
     user_monthly |-> [c.user_monthly EXCEPT ![user_id] = @ + total_cost],
     global_daily |-> c.global_daily + total_cost,
     global_monthly |-> c.global_monthly + total_cost]

\* get_current_costs when a Redis command raises: the exception is logged and
\* zeros are returned.
get_current_costs_failed ==
    [user_daily |-> 0, user_monthly |-> 0, global_daily |-> 0, global_monthly |-> 0]

\* The requests of the concurrent model, a request at rest, and what a request costs.
CGTasks == {"q1", "q2"}
IdleRequest == [pc |-> "idle", user |-> "none", cost |-> 0]
RequestCosts == {20, 30}

NoCheck == [user |-> "none", est |-> 0, before |-> get_current_costs(
               [user_daily |-> [u \in Users |-> 0], user_monthly |-> [u \in Users |-> 0],
                global_daily |-> 0, global_monthly |-> 0], "u1"),
            ok |-> FALSE, msg |-> "none", after |-> get_current_costs(
               [user_daily |-> [u \in Users |-> 0], user_monthly |-> [u \in Users |-> 0],
                global_daily |-> 0, global_monthly |-> 0], "u1")]

CGInit ==
    /\ cost = [user_daily |-> [u \in Users |-> 0], user_monthly |-> [u \in Users |-> 0],
               global_daily |-> 0, global_monthly |-> 0]
    /\ cgLast = NoCheck
    /\ cgOps = 0
    /\ cgRedisUp = TRUE
    /\ cgDownLast = [user |-> "none", est |-> 0, ok |-> FALSE, msg |-> "none"]
    /\ cgReq = [t \in CGTasks |-> IdleRequest]

\* One call of CostGuard.check_budget(user_id, estimated_cost), Redis available.
CheckBudget(user_id, estimated_cost) ==
    /\ cgOps < MaxCostOps
    /\ cgRedisUp
    /\ LET current_costs == get_current_costs(cost, user_id)
           r == check_budget(current_costs, estimated_cost)
       IN  /\ cost' = cost
           /\ cgLast' = [user |-> user_id, est |-> estimated_cost, before |-> current_costs,
                         ok |-> r[1], msg |-> r[2],
                         after |-> get_current_costs(cost', user_id)]
    /\ cgOps' = cgOps + 1
    /\ UNCHANGED <<cgRedisUp, cgDownLast, cgReq>>
    /\ UNCHANGED notCG

\* One call of CostGuard.record_usage whose tokens cost total_cost.
RecordUsage(user_id, total_cost) ==
    /\ cgOps < MaxCostOps
    /\ cgRedisUp
    /\ cost' = record_usage(cost, user_id, total_cost)
    /\ cgOps' = cgOps + 1
    /\ UNCHANGED <<cgLast, cgRedisUp, cgDownLast, cgReq>>
    /\ UNCHANGED notCG

\* The UTC date moves to the next day: the daily keys are new keys.
NewDay ==
    /\ cgOps < MaxCostOps
    /\ cost' = [cost EXCEPT !.user_daily = [u \in Users |-> 0], !.global_daily = 0]
    /\ cgOps' = cgOps + 1
    /\ UNCHANGED <<cgLast, cgRedisUp, cgDownLast, cgReq>>
    /\ UNCHANGED notCG

\* The UTC date moves to the next month: the daily and monthly keys are new keys.
NewMonth ==
    /\ cgOps < MaxCostOps
    /\ cost' = [user_daily |-> [u \in Users |-> 0], user_monthly |-> [u \in Users |-> 0],
                global_daily |-> 0, global_monthly |-> 0]
    /\ cgOps' = cgOps + 1
    /\ UNCHANGED <<cgLast, cgRedisUp, cgDownLast, cgReq>>
    /\ UNCHANGED notCG

\* The Redis store goes down: from now on every Redis command raises.
RedisDown ==
    /\ cgRedisUp
    /\ cgRedisUp' = FALSE
    /\ UNCHANGED <<cost, cgLast, cgOps, cgDownLast, cgReq>>
    /\ UNCHANGED notCG

\* The Redis store is back.
RedisUp ==
    /\ ~cgRedisUp
    /\ cgRedisUp' = TRUE
    /\ UNCHANGED <<cost, cgLast, cgOps, cgDownLast, cgReq>>
    /\ UNCHANGED notCG

\* One call of CostGuard.check_budget(user_id, estimated_cost) with Redis down:
\* get_current_costs catches the exception of MGET and returns zeros, which
\* check_budget tests against the limits.
CheckBudgetDown(user_id, estimated_cost) ==
    /\ cgOps < MaxCostOps
    /\ ~cgRedisUp
    /\ LET r == check_budget(get_current_costs_failed, estimated_cost)
       IN  cgDownLast' = [user |-> user_id, est |-> estimated_cost, ok |-> r[1], msg |-> r[2]]
    /\ cgOps' = cgOps + 1
    /\ UNCHANGED <<cost, cgLast, cgRedisUp, cgReq>>
    /\ UNCHANGED notCG

\* One call of CostGuard.record_usage with Redis down: the pipeline raises, the
\* exception is logged and nothing is recorded.
RecordUsageDown(user_id, total_cost) ==
    /\ cgOps < MaxCostOps
    /\ ~cgRedisUp
    /\ cgOps' = cgOps + 1
    /\ UNCHANGED <<cost, cgLast, cgRedisUp, cgDownLast, cgReq>>
    /\ UNCHANGED notCG

\* A request of user_id that will cost c starts: its check_budget(user_id, c).
\* With the budget available the request goes on to the call it pays for.
RequestCheck(t, user_id, c) ==
    /\ cgOps < MaxCostOps
    /\ cgRedisUp
    /\ cgReq[t].pc = "idle"
    /\ LET current_costs == get_current_costs(cost, user_id)
           r == check_budget(current_costs, c)
       IN  /\ cgLast' = [user |-> user_id, est |-> c, before |-> current_costs,
                         ok |-> r[1], msg |-> r[2], after |-> current_costs]
           /\ cgReq' = [cgReq EXCEPT ![t] =
                  IF r[1] THEN [pc |-> "checked", user |-> user_id, cost |-> c] ELSE @]
    /\ cgOps' = cgOps + 1
    /\ UNCHANGED <<cost, cgRedisUp, cgDownLast>>
    /\ UNCHANGED notCG

\* The request's call is over: its record_usage of the cost that was checked.
RequestRecord(t) ==
    /\ cgReq[t].pc = "checked"
    /\ cost' = record_usage(cost, cgReq[t].user, cgReq[t].cost)
    /\ cgReq' = [cgReq EXCEPT ![t] = IdleRequest]
    /\ UNCHANGED <<cgLast, cgOps, cgRedisUp, cgDownLast>>
    /\ UNCHANGED notCG

(***************************************************************************)
(* core/model_manager.py: ModelManager                                     *)
(***************************************************************************)

\* Bounds of the model cache model: concurrent calls and clear_cache calls.
MaxTasks == 3
MaxClears == 1

Tasks == 1..MaxTasks
ModelNames == {"all-mpnet-base-v2", "all-MiniLM-L6-v2"}

\* `model_name in self._models`, the check on entry
in_models(m, model_name) == m[model_name] # 0

\* The double check left out: a call that waited for the lock loads again.
double_check_skipped(m, model_name) == FALSE

\* `model_name in self._models`, the check repeated once the lock is held
double_check(m, model_name) == m[model_name] # 0

\* `if model_name not in self._loading_locks: self._loading_locks[model_name] = asyncio.Lock()`
ensure_lock(l, model_name) ==
    IF l[model_name] = "none" THEN [l EXCEPT ![model_name] = "free"] ELSE l

\* The instance a loader run creates: a fresh object.
NewInstance == 1 + mmLoaded["all-mpnet-base-v2"] + mmLoaded["all-MiniLM-L6-v2"]

MMInit ==
    /\ models = [n \in ModelNames |-> 0]
    /\ locks = [n \in ModelNames |-> "none"]
    /\ mmTask = [t \in Tasks |-> [pc |-> "idle", name |-> "none", ret |-> 0, locked |-> FALSE]]
    /\ mmLoaded = [n \in ModelNames |-> 0]
    /\ mmReturned = [n \in ModelNames |-> {}]
    /\ mmCleared = 0

\* get_embedding_model(model_name) up to `async with self._loading_locks[model_name]`:
\* return the cached model, or make sure the lock exists and ask for it.
GetEmbeddingModel(t, model_name) ==
    /\ mmTask[t].pc = "idle"
    /\ IF in_models(models, model_name)
       THEN /\ mmTask' = [mmTask EXCEPT ![t] = [pc |-> "returned", name |-> model_name,
                                                ret |-> models[model_name], locked |-> FALSE]]
            /\ mmReturned' = [mmReturned EXCEPT ![model_name] = @ \cup {models[model_name]}]
            /\ UNCHANGED locks
       ELSE /\ locks' = ensure_lock(locks, model_name)
            /\ mmTask' = [mmTask EXCEPT ![t] = [pc |-> "acquire", name |-> model_name,
                                                ret |-> 0, locked |-> TRUE]]
            /\ UNCHANGED mmReturned
    /\ UNCHANGED <<models, mmLoaded, mmCleared>>
    /\ UNCHANGED notMM

\* The lock is acquired (it is free): the double check, which returns the cached
\* model and releases the lock, or goes on to load.
AcquireLock(t) ==
    /\ mmTask[t].pc = "acquire"
    /\ locks[mmTask[t].name] = "free"
    /\ LET n == mmTask[t].name
       IN  IF double_check(models, n)
           THEN /\ mmTask' = [mmTask EXCEPT ![t].pc = "returned", ![t].ret = models[n]]
                /\ mmReturned' = [mmReturned EXCEPT ![n] = @ \cup {models[n]}]
                /\ UNCHANGED locks
           ELSE /\ mmTask' = [mmTask EXCEPT ![t].pc = "loading"]
                /\ locks' = [locks EXCEPT ![n] = "held"]
                /\ UNCHANGED mmReturned
    /\ UNCHANGED <<models, mmLoaded, mmCleared>>
    /\ UNCHANGED notMM

\* The loader (SentenceTransformer from a local path, else by name) runs under the
\* lock.  ok: it produced a model, which is cached and returned; otherwise the
\* exception is re-raised and nothing is cached.  Leaving the block releases the lock.
LoadModel(t, ok) ==
    /\ mmTask[t].pc = "loading"
    /\ LET n == mmTask[t].name
       IN  /\ locks' = [locks EXCEPT ![n] = "free"]
           /\ IF ok
              THEN /\ models' = [models EXCEPT ![n] = NewInstance]
                   /\ mmLoaded' = [mmLoaded EXCEPT ![n] = @ + 1]
                   /\ mmTask' = [mmTask EXCEPT ![t].pc = "returned", ![t].ret = NewInstance]
                   /\ mmReturned' = [mmReturned EXCEPT ![n] = @ \cup {NewInstance}]
              ELSE /\ mmTask' = [mmTask EXCEPT ![t].pc = "raised"]
                   /\ UNCHANGED <<models, mmLoaded, mmReturned>>
    /\ UNCHANGED mmCleared
    /\ UNCHANGED notMM

\* clear_cache(): self._models.clear()
ClearCache ==
    /\ mmCleared < MaxClears
    /\ models' = [n \in ModelNames |-> 0]
    /\ mmCleared' = mmCleared + 1
    /\ UNCHANGED <<locks, mmTask, mmLoaded, mmReturned>>
    /\ UNCHANGED notMM

(***************************************************************************)
(* core/memory_service.py: MemoryService                                   *)
(***************************************************************************)

\* Bounds of the memory model: memories stored, and cache faults (delete_user_data
\* calls, expiries, failed cache writes).
MaxStores == 11
MaxFaults == 1

\* The limits the gateway passes to get_recent_context, and to search_memories.
ContextLimits == {3, 5, 8}
SearchLimits == {5}

\* _hash_user_id(user_id): sha256 of "eva_user_<id>", the first 16 hex digits
_hash_user_id(user_id) == <<"eva_user", user_id>>
HashedUsers == {_hash_user_id(u) : u \in Users}

\* Redis list commands.  Indexes are inclusive and zero-based; a negative index
\* counts from the end of the list; a range outside the list is cut to it.
lrange(l, start, stop) ==
    LET n == Len(l)
        s == IF start < 0 THEN Max(n + start, 0) ELSE start
        e == IF stop < 0 THEN n + stop ELSE Min(stop, n - 1)
    IN  IF s > e THEN <<>> ELSE SubSeq(l, s + 1, e + 1)
lpush(l, x) == <<x>> \o l
ltrim(l, start, stop) == lrange(l, start, stop)

\* The importance store_memory is given with each interaction type.
ImportanceOf(type) ==
    CASE type = "user_message" -> 5
      [] type = "bot_response" -> 4
      [] type = "tone_change" -> 2
      [] OTHER -> 5

\* _cache_recent_memory trimming one place too late: 11 memories are kept.
_cache_recent_memory_keep11(c, user_id, memory) ==
    [c EXCEPT ![_hash_user_id(user_id)] = ltrim(lpush(@, memory), 0, 10)]

\* _cache_recent_memory: LPUSH the memory, LTRIM to the last 10 (then EXPIRE 24 h)
_cache_recent_memory(c, user_id, memory) ==
    [c EXCEPT ![_hash_user_id(user_id)] = ltrim(lpush(@, memory), 0, 9)]

\* store_memory(user_id, text, interaction_type, importance): add to the collection,
\* then cache.  chromaOk: the collection is there and the embedding and the add
\* succeed (else: return False).  redisOk: the cache write succeeds (else it is
\* logged and store_memory still returns True).
store_memory(ch, c, id, user_id, type, chromaOk, redisOk) ==
    IF ~chromaOk
    THEN [ok |-> FALSE, chroma |-> ch, cache |-> c]
    ELSE [ok |-> TRUE,
          chroma |-> ch \cup {[id |-> id, user |-> _hash_user_id(user_id), type |-> type,
                               importance |-> ImportanceOf(type)]},
          cache |-> IF redisOk
                    THEN _cache_recent_memory(c, user_id,
                             [id |-> id, type |-> type, importance |-> ImportanceOf(type)])
                    ELSE c]

\* A sequence of the records of set S in descending order of key[r] (keys distinct).
RECURSIVE SortDesc(_, _)
SortDesc(S, key) ==
    IF S = {} THEN <<>>
    ELSE LET top == CHOOSE r \in S : \A q \in S : key[q] <= key[r]
         IN  <<top>> \o SortDesc(S \ {top}, key)

\* The first k elements of a sequence.
Take(l, k) == SubSeq(l, 1, Min(k, Len(l)))

\* The subsets of S that leave out d of its elements.
RECURSIVE AllBut(_, _)
AllBut(S, d) == IF d = 0 THEN {S} ELSE UNION {AllBut(S \ {x}, d - 1) : x \in S}

\* collection.query(... n_results, where user_id = hash and importance >= min):
\* the n_results nearest of the matching records (which are nearest is up to the
\* embeddings: any n_results of them).
ChromaQuery(ch, user_id, n_results, min_importance) ==
    LET matching == {r \in ch : r.user = _hash_user_id(user_id) /\ r.importance >= min_importance}
    IN  AllBut(matching, Max(Cardinality(matching) - n_results, 0))

\* search_memories(user_id, query, limit) on the records found: sorted by
\* (importance, timestamp), highest first, cut to limit.
search_memories(found, limit) ==
    Take(SortDesc(found, [r \in found |-> r.importance * (MaxStores + 2) + r.id]), limit)

\* get_recent_context(user_id, limit): LRANGE 0 limit-1 of the cache; if that is
\* empty, the ChromaDB fallback (found: what the query gave, {} when it raised),
\* sorted by timestamp, newest first, cut to limit.
get_recent_context(c, user_id, limit, found) ==
    LET cached_context == lrange(c[_hash_user_id(user_id)], 0, limit - 1)
    IN  IF cached_context # <<>>
        THEN cached_context
        ELSE Take(SortDesc(found, [r \in found |-> r.id]), limit)

\* delete_user_data(user_id): DEL of the cache key; the collection is not touched.
delete_user_data(ch, c, user_id) ==
    [chroma |-> ch, cache |-> [c EXCEPT ![_hash_user_id(user_id)] = <<>>]]

\* The ids of a sequence of memory records.
Ids(l) == [i \in DOMAIN l |-> l[i].id]

\* The id of the next memory of a user: memories are told apart by their user
\* and their place in the order the user's memories were stored.
NextMemoryId(user_id) == Len(memStored[user_id]) + 1
TotalStored == Len(memStored["u1"]) + Len(memStored["u2"])

NoQuery == [op |-> "none", user |-> "none", limit |-> 0, before |-> <<>>, result |-> <<>>]

MemInit ==
    /\ chroma = {}
    /\ cache = [h \in HashedUsers |-> <<>>]
    /\ memStored = [u \in Users |-> <<>>]
    /\ memDisturbed = [u \in Users |-> FALSE]
    /\ memForgotten = [u \in Users |-> {}]
    /\ memFaults = 0
    /\ memLast = NoQuery

\* One call of store_memory(user_id, text) with the default interaction type.
StoreMemory(user_id, chromaOk, redisOk) ==
    /\ TotalStored < MaxStores
    /\ redisOk \/ memFaults < MaxFaults
    /\ LET id == NextMemoryId(user_id)
           r == store_memory(chroma, cache, id, user_id, "message", chromaOk, redisOk)
       IN  /\ chroma' = r.chroma
           /\ cache' = r.cache
           /\ memStored' = [memStored EXCEPT ![user_id] = IF r.ok THEN <<id>> \o @ ELSE @]
           /\ memDisturbed' = [memDisturbed EXCEPT ![user_id] = @ \/ (r.ok /\ ~redisOk)]
    /\ memFaults' = IF redisOk THEN memFaults ELSE memFaults + 1
    /\ memLast' = NoQuery
    /\ UNCHANGED memForgotten
    /\ UNCHANGED notMem

\* One call of get_recent_context(user_id, limit), made once the previous query's
\* result has been taken (a query changes nothing stored).  fallbackOk: the ChromaDB query
\* of the fallback answers (it is made without a query embedding) rather than raises.
GetRecentContext(user_id, limit, fallbackOk) ==
    /\ memLast = NoQuery
    /\ \E found \in (IF fallbackOk THEN ChromaQuery(chroma, user_id, limit * 3, 0) ELSE {{}}) :
         memLast' = [op |-> "context", user |-> user_id, limit |-> limit,
                     before |-> Ids(cache[_hash_user_id(user_id)]),
                     result |-> Ids(get_recent_context(cache, user_id, limit, found))]
    /\ UNCHANGED <<chroma, cache, memStored, memDisturbed, memForgotten, memFaults>>
    /\ UNCHANGED notMem

\* One call of search_memories(user_id, query, limit) that reaches ChromaDB.
SearchMemories(user_id, limit) ==
    /\ memLast = NoQuery
    /\ \E found \in ChromaQuery(chroma, user_id, limit * 2, 0) :
         memLast' = [op |-> "search", user |-> user_id, limit |-> limit,
                     before |-> Ids(cache[_hash_user_id(user_id)]),
                     result |-> Ids(search_memories(found, limit))]
    /\ UNCHANGED <<chroma, cache, memStored, memDisturbed, memForgotten, memFaults>>
    /\ UNCHANGED notMem

\* One call of delete_user_data(user_id) that succeeds (returns 1).
DeleteUserData(user_id) ==
    /\ memFaults < MaxFaults
    /\ LET r == delete_user_data(chroma, cache, user_id)
       IN  /\ chroma' = r.chroma
           /\ cache' = r.cache
    /\ memForgotten' = [memForgotten EXCEPT ![user_id] =
                            @ \cup {memStored[user_id][i] : i \in DOMAIN memStored[user_id]}]
    /\ memDisturbed' = [memDisturbed EXCEPT ![user_id] = TRUE]
    /\ memFaults' = memFaults + 1
    /\ memLast' = NoQuery
    /\ UNCHANGED memStored
    /\ UNCHANGED notMem

\* 24 hours pass without a store for the user: the cache key expires.
ExpireCache(user_id) ==
    /\ memFaults < MaxFaults
    /\ cache[_hash_user_id(user_id)] # <<>>
    /\ cache' = [cache EXCEPT ![_hash_user_id(user_id)] = <<>>]
    /\ memDisturbed' = [memDisturbed EXCEPT ![user_id] = TRUE]
    /\ memFaults' = memFaults + 1
    /\ memLast' = NoQuery
    /\ UNCHANGED <<chroma, memStored, memForgotten>>
    /\ UNCHANGED notMem

(***************************************************************************)
(* core/lora_service.py: LoRAService; core/ai_service.py: AIService;       *)
(* core/telegram_gateway.py: TelegramGateway                               *)
(*                                                                         *)
(* A handler is a coroutine: each action is one of its runs from one await *)
(* that can suspend it to the next.  The handlers' calls of the memory     *)
(* service are kept in their histories; what the memory service keeps is   *)
(* the memory component's part.                                            *)
(***************************************************************************)

\* Bounds of the gateway model: the Telegram updates handled (messages, /tone and
\* /forget commands), and the nesting of initialize() calls the interpreter allows
\* before it raises RecursionError.
MaxUpdates == 3
RecursionDepth == 2

\* The coroutines: the start-up of the gateway, and two message handlers that run
\* side by side (webhook updates are processed as they arrive), each handling one
\* message at a time.
Handlers == {"h1", "h2"}
Procs == {"boot"} \cup Handlers

\* The users that send commands, the one of them that also sends messages, the
\* words that follow /tone, and the cooldown actions in use.
GwUsers == {"u1", "u2"}
MsgUsers == {"u1"}
ToneArgs == {"FORMAL", "pirate"}
GwActions == {"message", "ask"}
\* The action classes _check_rate_limit knows: text messages, the ask-class
\* commands (/ask, /dream, /analyze, /search, /news, /web) and voice messages.
CooldownActions == {"message", "ask", "voice"}
\* The clock's steps between gateway events: half a message cooldown, a whole one.
CooldownSteps == {15, 30}

\* _handle_tone: available_tones
available_tones == {"friendly", "formal", "gen-z"}

\* LoRAService.personality_adapters: its keys
Personalities == {"friendly", "formal", "gen-z"}

\* str.lower() on the words used
lower(s) == IF s = "FORMAL" THEN "formal" ELSE s

\* _format_for_local_model: tone_prompts (the opening words of each prompt)
tone_prompts_local ==
    ("friendly" :> "You are Eva, a warm and caring AI friend."
     @@ "formal" :> "You are Eva, a highly professional AI consultant."
     @@ "gen-z" :> "You are Eva, a trendy Gen-Z AI bestie!")

\* _format_for_openai: tone_prompts (the opening words of each prompt)
tone_prompts_openai ==
    ("friendly" :> "You are Eva, a warm and caring AI friend with persistent memory."
     @@ "formal" :> "You are Eva, a highly professional AI consultant with comprehensive knowledge and persistent memory."
     @@ "gen-z" :> "You are Eva, the ultimate Gen-Z AI bestie with perfect memory!")

\* _format_for_local_model(message, context, tone): the system prompt,
\* tone_prompts.get(tone, tone_prompts["friendly"])
_format_for_local_model(tone) ==
    IF tone \in DOMAIN tone_prompts_local THEN tone_prompts_local[tone] ELSE tone_prompts_local["friendly"]

\* _format_for_openai(message, context, tone): the system prompt
_format_for_openai(tone) ==
    IF tone \in DOMAIN tone_prompts_openai THEN tone_prompts_openai[tone] ELSE tone_prompts_openai["friendly"]

\* _try_local_ai: payload["adapter_name"] = f"eva-{current_adapter}" if there is a
\* current adapter ("None": the payload has no adapter_name)
adapter_name(current) ==
    CASE current = "friendly" -> "eva-friendly"
      [] current = "formal" -> "eva-formal"
      [] current = "gen-z" -> "eva-gen-z"
      [] OTHER -> "None"

\* A call a handler makes, as its history keeps it.
Ev(ev) == [ev |-> ev, adapter |-> "-", prompt |-> "-"]

\* A handler that has not started, and the local variables of the LoRA calls at rest.
IdleProc ==
    [pc |-> "idle", user |-> "none", tone |-> "none", source |-> "none",
     depth |-> 0, ret |-> "none", caller |-> "none", target |-> "none", unloading |-> "none",
     toneSet |-> "none", toneKept |-> "none", last |-> Ev("none"), did |-> {}]

\* Once the LoRA calls of a handler are over their local variables are gone.
Settle(st) ==
    IF st.p.pc \in {"health", "unload", "load"}
    THEN st
    ELSE [st EXCEPT !.p = [@ EXCEPT !.depth = 0, !.ret = "none", !.caller = "none",
                                    !.target = "none", !.unloading = "none"]]

RECURSIVE load_adapter(_, _, _, _)
RECURSIVE load_adapter_return(_, _, _)
RECURSIVE initialize_return(_, _)

\* load_adapter(personality) of an initialized service, from the personality test
\* to its first request to vLLM: the unload of another current adapter, or the load.
\* caller: "initialize" (line 61) or "optimize" (optimize_for_personality, line 148).
load_adapter(lo, p, personality, caller) ==
    LET q == [p EXCEPT !.target = personality, !.caller = caller]
    IN  IF personality \notin Personalities
        THEN load_adapter_return(lo, q, FALSE)
        ELSE IF lo.current_adapter = personality /\ lo.loaded[personality]
        THEN load_adapter_return(lo, q, TRUE)
        ELSE IF lo.current_adapter # "None" /\ lo.current_adapter # personality
        THEN [lora |-> lo, p |-> [q EXCEPT !.pc = "unload", !.unloading = lo.current_adapter]]
        ELSE [lora |-> lo, p |-> [q EXCEPT !.pc = "load"]]

\* load_adapter returns `result` to its caller.  initialize goes on to set
\* _initialized whatever the result; optimize_for_personality goes on to apply the
\* generation parameters if the adapter was loaded, and returns an error otherwise.
load_adapter_return(lo, p, result) ==
    IF p.caller = "initialize"
    THEN initialize_return([lo EXCEPT !.initialized = TRUE], p)
    ELSE [lora |-> lo, p |-> [p EXCEPT !.pc = IF result THEN "apply" ELSE "reasoning"]]

\* initialize() returns.  A nested call (depth > 0) returns into the
\* load_adapter("friendly") of the enclosing initialize, which gives up if the
\* service is still not initialized; the outermost returns to AIService.initialize
\* or to optimize_for_personality, which goes on to load_adapter(personality) if
\* the service is initialized.
initialize_return(lo, p) ==
    IF p.depth > 0
    THEN LET q == [p EXCEPT !.depth = @ - 1, !.caller = "initialize"]
         IN  IF ~lo.initialized
             THEN load_adapter_return(lo, q, FALSE)
             ELSE load_adapter(lo, q, "friendly", "initialize")
    ELSE IF p.ret = "ai_init"
    THEN [lora |-> lo, p |-> [p EXCEPT !.pc = "ai_init"]]
    ELSE IF ~lo.initialized
    THEN [lora |-> lo, p |-> [p EXCEPT !.pc = "reasoning"]]
    ELSE load_adapter(lo, p, p.tone, "optimize")

\* initialize() with a _check_vllm_server that never raises: the answer of vLLM
\* is not looked at and initialize() goes on as after a 200.
_check_vllm_server_done_unchecked(lo, p, ok) ==
    IF lo.initialized
    THEN load_adapter(lo, p, "friendly", "initialize")
    ELSE IF p.depth < RecursionDepth
    THEN [lora |-> lo, p |-> [p EXCEPT !.depth = @ + 1, !.pc = "health"]]
    ELSE initialize_return(lo, p)

\* initialize() after _check_vllm_server has answered: an exception ends the call;
\* otherwise load_adapter("friendly") calls initialize() again while the service is
\* not initialized, until the interpreter raises RecursionError.
_check_vllm_server_done(lo, p, ok) ==
    IF ~ok
    THEN initialize_return(lo, p)
    ELSE IF lo.initialized
    THEN load_adapter(lo, p, "friendly", "initialize")
    ELSE IF p.depth < RecursionDepth
    THEN [lora |-> lo, p |-> [p EXCEPT !.depth = @ + 1, !.pc = "health"]]
    ELSE initialize_return(lo, p)

\* optimize_for_personality(personality, context) up to its first request to vLLM.
optimize_for_personality(lo, p) ==
    IF ~lo.initialized
    THEN [lora |-> lo, p |-> [p EXCEPT !.pc = "health", !.depth = 0, !.ret = "optimize"]]
    ELSE load_adapter(lo, p, p.tone, "optimize")

\* _unload_current_adapter after vLLM has answered: loaded is cleared on a 200.
_unload_current_adapter_done(lo, p, ok) ==
    [lora |-> IF ok THEN [lo EXCEPT !.loaded[p.unloading] = FALSE] ELSE lo,
     p |-> [p EXCEPT !.pc = "load"]]

\* load_adapter after _load_adapter_via_api has answered.
_load_adapter_via_api_done(lo, p, success) ==
    IF success
    THEN load_adapter_return([lo EXCEPT !.loaded[p.target] = TRUE, !.current_adapter = p.target], p, TRUE)
    ELSE load_adapter_return(lo, p, FALSE)

\* generate_response, the router: what follows the answer of a backend.  stage:
\* the attempt that has answered; client: self._openai_client is set.
next_backend_hosted_first(stage, success, client) ==
    IF stage \in {"local1", "local2"} THEN (IF stage = "local1" THEN "openai1" ELSE "openai2")
    ELSE IF success THEN "return" ELSE IF stage = "openai1" THEN "local2" ELSE "fallback"

next_backend(stage, success, client) ==
    IF success THEN "return"
    ELSE CASE stage = "local1" -> IF client THEN "openai1" ELSE "local2"
           [] stage = "openai1" -> "local2"
           [] stage = "local2" -> IF client THEN "openai2" ELSE "fallback"
           [] stage = "openai2" -> "fallback"

\* generate_response with an except clause that lets the exception go on to the
\* caller.
generate_response_except_reraise == "raised"

\* generate_response's except clause: the exception is logged and the final
\* fallback follows.
generate_response_except == "fallback"

\* The response of the final fallback.
Apology == "I'm having trouble processing your message right now. Please try again in a moment."

\* What generate_response gives its caller, by the source of the result: the
\* backend's completion with success True, the final fallback, or an exception.
generate_response_result(source) ==
    CASE source \in {"local_gpu", "openai_gpt4o"} ->
             [raised |-> FALSE, success |-> TRUE, response |-> "completion", source |-> source]
      [] source = "fallback" ->
             [raised |-> FALSE, success |-> FALSE, response |-> Apology, source |-> "fallback"]
      [] OTHER ->
             [raised |-> TRUE, success |-> FALSE, response |-> "-", source |-> "-"]

\* The "source" of the result a backend's success gives.
source_of(stage) == IF stage \in {"local1", "local2"} THEN "local_gpu" ELSE "openai_gpt4o"

\* _check_rate_limit(user_id, action) at current_time
_check_rate_limit(rl, user_id, action, current_time) ==
    LET gw_limits == ("message" :> 30 @@ "ask" :> 15 @@ "voice" :> 60)
        limit_duration == IF action \in DOMAIN gw_limits THEN gw_limits[action] ELSE 30
        last_action_time == rl[user_id][action]
    IN  IF current_time - last_action_time < limit_duration
        THEN [allowed |-> FALSE, rate_limits |-> rl]
        ELSE [allowed |-> TRUE, rate_limits |-> [rl EXCEPT ![user_id][action] = current_time]]

\* _handle_tone without the test of the tone against available_tones.
_handle_tone_unchecked(tones, user_id, arg) ==
    [valid |-> TRUE, user_tones |-> [tones EXCEPT ![user_id] = lower(arg)]]

\* _handle_tone(update, context) with context.args[0] = arg: the tone is set if
\* the lowercased word is one of available_tones.
_handle_tone(tones, user_id, arg) ==
    LET requested_tone == lower(arg)
    IN  IF requested_tone \notin available_tones
        THEN [valid |-> FALSE, user_tones |-> tones]
        ELSE [valid |-> TRUE, user_tones |-> [tones EXCEPT ![user_id] = requested_tone]]

\* self.user_tones.get(user_id, "friendly")
user_tone(tones, user_id) == IF tones[user_id] = "unset" THEN "friendly" ELSE tones[user_id]

\* History: the tone a word after /tone names, whatever its case ("invalid": none).
ToneNamed(arg) ==
    CASE arg = "FORMAL" -> "formal"
      [] OTHER -> "invalid"

GWInit ==
    /\ gwInit = FALSE
    /\ aiInit = FALSE
    /\ openai_client = FALSE
    /\ lora = [initialized |-> FALSE, current_adapter |-> "None",
               loaded |-> [a \in Personalities |-> FALSE]]
    /\ user_tones = [u \in GwUsers |-> "unset"]
    /\ rate_limits = [u \in GwUsers |-> [a \in CooldownActions |-> 0]]
    /\ accepted = [u \in GwUsers |-> [a \in CooldownActions |-> <<>>]]
    /\ bootCalls = [checks |-> 0, loads |-> 0, failed |-> FALSE]
    /\ healthPassed = FALSE
    /\ proc = [r \in Procs |-> IdleProc]
    /\ toneSet = [u \in GwUsers |-> "friendly"]
    /\ toneKept = [u \in GwUsers |-> "friendly"]
    /\ forgetting = {}
    /\ gwUpdates = 0

\* The history of accepted actions after a _check_rate_limit at time t.
Accepted(acc, user_id, action, allowed, t) ==
    IF allowed THEN [acc EXCEPT ![user_id][action] = Append(@, t)] ELSE acc

\* The handler's history after one more call: the call is its last, the ones
\* before are in did.
Called(p, e) == [p EXCEPT !.last = e, !.did = (@ \cup {p.last.ev}) \ {"none"}]

\* A handler's LoRA calls moved on to state st.
GwLoRAStep(r, st) ==
    /\ lora' = Settle(st).lora
    /\ proc' = [proc EXCEPT ![r] = Settle(st).p]

\* _try_local_ai sends its request: the prompt of the tone, the current adapter.
LocalRequest(p) ==
    [ev |-> "local_req", adapter |-> adapter_name(lora.current_adapter),
     prompt |-> _format_for_local_model(p.tone)]

\* _try_openai sends its request.
HostedRequest(p) ==
    [ev |-> "hosted_req", adapter |-> "-", prompt |-> _format_for_openai(p.tone)]

\* TelegramGateway.initialize: AIService.initialize sets the OpenAI client (client:
\* there is an API key and the client can be made), warms the models up and
\* initializes the reasoning service (ok: without an exception), then calls
\* lora_service.initialize, which asks vLLM for its health.
StartGateway(ok, client) ==
    /\ proc["boot"].pc = "idle"
    /\ openai_client' = client
    /\ proc' = [proc EXCEPT !["boot"] = IF ok THEN [@ EXCEPT !.pc = "health", !.ret = "ai_init"]
                                        ELSE [@ EXCEPT !.pc = "done"]]
    /\ UNCHANGED <<forgetting, gwInit, aiInit, lora, user_tones, rate_limits, toneSet, toneKept, gwUpdates, accepted, bootCalls, healthPassed>>
    /\ UNCHANGED notGW

\* lora_service.initialize has returned to AIService.initialize: the performance
\* monitor, the memory and voice services and the Telegram application are
\* initialized (ok: without an exception) and the handlers registered.
FinishGateway(ok) ==
    /\ proc["boot"].pc = "ai_init"
    /\ aiInit' = ok
    /\ gwInit' = ok
    /\ proc' = [proc EXCEPT !["boot"] = [@ EXCEPT !.pc = "done"]]
    /\ bootCalls' = [checks |-> 0, loads |-> 0, failed |-> FALSE]
    /\ UNCHANGED healthPassed
    /\ UNCHANGED <<forgetting, openai_client, lora, user_tones, rate_limits, toneSet, toneKept, gwUpdates, accepted>>
    /\ UNCHANGED notGW

\* _handle_message (action "message") or _handle_ask with a question (action
\* "ask") for a message of user_id: the cooldown test; if it passes,
\* _process_text_message up to its first await, and if not, the reply that asks
\* to wait.
HandleMessage(r, user_id, action) ==
    /\ gwInit
    /\ gwUpdates < MaxUpdates
    /\ proc[r].pc = "idle"
    /\ r = "h1" \/ proc["h1"].pc # "idle"
    /\ LET c == _check_rate_limit(rate_limits, user_id, action, now)
       IN  /\ rate_limits' = c.rate_limits
           /\ accepted' = Accepted(accepted, user_id, action, c.allowed, now)
           /\ proc' = [proc EXCEPT ![r] =
                  IF c.allowed
                  THEN Called([@ EXCEPT !.user = user_id, !.pc = "store_user"], Ev("check_rate_limit"))
                  ELSE @]
    /\ gwUpdates' = gwUpdates + 1
    /\ UNCHANGED <<forgetting, gwInit, aiInit, openai_client, lora, user_tones, toneSet, toneKept, bootCalls, healthPassed>>
    /\ UNCHANGED notGW

\* _process_text_message: store_memory of the user's message.
StoreUserMessage(r) ==
    /\ proc[r].pc = "store_user"
    /\ proc' = [proc EXCEPT ![r] = Called([@ EXCEPT !.pc = "context"], Ev("store_user_message"))]
    /\ UNCHANGED <<forgetting, gwInit, aiInit, openai_client, lora, user_tones, rate_limits, toneSet, toneKept, gwUpdates, accepted, bootCalls, healthPassed>>
    /\ UNCHANGED notGW

\* _process_text_message: get_recent_context has answered; the user's tone is read
\* and generate_response called, which runs to optimize_for_personality's first
\* request to vLLM (or past it, if there is none to make).
GetContext(r) ==
    /\ proc[r].pc = "context"
    /\ LET u == proc[r].user
           p == [proc[r] EXCEPT !.tone = user_tone(user_tones, u),
                                !.toneSet = toneSet[u], !.toneKept = toneKept[u]]
       IN  GwLoRAStep(r, optimize_for_personality(lora, Called(p, Ev("get_recent_context"))))
    /\ UNCHANGED <<forgetting, gwInit, aiInit, openai_client, user_tones, rate_limits, toneSet, toneKept, gwUpdates, accepted, bootCalls, healthPassed>>
    /\ UNCHANGED notGW

\* vLLM's health check has answered (ok: with 200) in initialize().
CheckVllmServerDone(r, ok) ==
    /\ proc[r].pc = "health"
    /\ GwLoRAStep(r, _check_vllm_server_done(lora, proc[r], ok))
    /\ bootCalls' = IF r = "boot"
                    THEN [bootCalls EXCEPT !.checks = @ + 1, !.failed = @ \/ ~ok]
                    ELSE bootCalls
    /\ healthPassed' = (healthPassed \/ ok)
    /\ UNCHANGED <<forgetting, gwInit, aiInit, openai_client, user_tones, rate_limits, toneSet, toneKept, gwUpdates, accepted>>
    /\ UNCHANGED notGW

\* vLLM has answered the DELETE of _unload_current_adapter (ok: with 200).
UnloadDone(r, ok) ==
    /\ proc[r].pc = "unload"
    /\ GwLoRAStep(r, _unload_current_adapter_done(lora, proc[r], ok))
    /\ UNCHANGED <<forgetting, gwInit, aiInit, openai_client, user_tones, rate_limits, toneSet, toneKept, gwUpdates, accepted, bootCalls, healthPassed>>
    /\ UNCHANGED notGW

\* vLLM has answered the POST of _load_adapter_via_api (ok: with 200).
LoadDone(r, ok) ==
    /\ proc[r].pc = "load"
    /\ GwLoRAStep(r, _load_adapter_via_api_done(lora, proc[r], ok))
    /\ bootCalls' = IF r = "boot"
                    THEN [bootCalls EXCEPT !.loads = @ + 1, !.failed = @ \/ ~ok]
                    ELSE bootCalls
    /\ UNCHANGED healthPassed
    /\ UNCHANGED <<forgetting, gwInit, aiInit, openai_client, user_tones, rate_limits, toneSet, toneKept, gwUpdates, accepted>>
    /\ UNCHANGED notGW

\* vLLM has answered _apply_generation_parameters; optimize_for_personality returns
\* and generate_response calls the reasoning service.
ApplyDone(r) ==
    /\ proc[r].pc = "apply"
    /\ proc' = [proc EXCEPT ![r] = [@ EXCEPT !.pc = "reasoning"]]
    /\ UNCHANGED <<forgetting, gwInit, aiInit, openai_client, lora, user_tones, rate_limits, toneSet, toneKept, gwUpdates, accepted, bootCalls, healthPassed>>
    /\ UNCHANGED notGW

\* analyze_context and reason_and_respond are over.  outcome: "response" (the result
\* has a response), "none" (it has none) or "raise" (an exception, which
\* generate_response answers with its final fallback).  The first backend tried is
\* the local one.
ReasoningDone(r, outcome) ==
    /\ proc[r].pc = "reasoning"
    /\ proc' = [proc EXCEPT ![r] =
           IF outcome = "raise"
           THEN [@ EXCEPT !.pc = "reply", !.source = generate_response_except]
           ELSE Called([@ EXCEPT !.pc = IF outcome = "response" THEN "local1" ELSE "local2"],
                       LocalRequest(@))]
    /\ UNCHANGED <<forgetting, gwInit, aiInit, openai_client, lora, user_tones, rate_limits, toneSet, toneKept, gwUpdates, accepted, bootCalls, healthPassed>>
    /\ UNCHANGED notGW

\* A backend has answered (success: with a completion): the local one for stages
\* local1 and local2, the hosted one for openai1 and openai2.  generate_response
\* returns the result, tries the next backend, or returns its final fallback.
BackendDone(r, success) ==
    /\ proc[r].pc \in {"local1", "openai1", "local2", "openai2"}
    /\ LET stage == proc[r].pc
           next == next_backend(stage, success, openai_client)
           answered == Called(proc[r], Ev(IF stage \in {"local1", "local2"}
                                          THEN (IF success THEN "local_ok" ELSE "local_failed")
                                          ELSE (IF success THEN "hosted_ok" ELSE "hosted_failed")))
       IN  proc' = [proc EXCEPT ![r] =
               CASE next = "return" -> [answered EXCEPT !.pc = "store_bot", !.source = source_of(stage)]
                 [] next = "fallback" -> [answered EXCEPT !.pc = "reply", !.source = "fallback"]
                 [] next \in {"openai1", "openai2"} ->
                        Called([answered EXCEPT !.pc = next], HostedRequest(answered))
                 [] OTHER -> Called([answered EXCEPT !.pc = next], LocalRequest(answered))]
    /\ UNCHANGED <<forgetting, gwInit, aiInit, openai_client, lora, user_tones, rate_limits, toneSet, toneKept, gwUpdates, accepted, bootCalls, healthPassed>>
    /\ UNCHANGED notGW

\* _process_text_message: the response was a success; store_memory of the bot's
\* response, then the reply is sent.
StoreBotResponse(r) ==
    /\ proc[r].pc = "store_bot"
    /\ proc' = [proc EXCEPT ![r] = Called([@ EXCEPT !.pc = "reply"], Ev("store_bot_response"))]
    /\ UNCHANGED <<forgetting, gwInit, aiInit, openai_client, lora, user_tones, rate_limits, toneSet, toneKept, gwUpdates, accepted, bootCalls, healthPassed>>
    /\ UNCHANGED notGW

\* The reply (the response, or the apology for an error) is sent: the handler is over.
Reply(r) ==
    /\ proc[r].pc = "reply"
    /\ proc' = [proc EXCEPT ![r] = IdleProc]
    /\ UNCHANGED <<forgetting, gwInit, aiInit, openai_client, lora, user_tones, rate_limits, toneSet, toneKept, gwUpdates, accepted, bootCalls, healthPassed>>
    /\ UNCHANGED notGW

\* _handle_tone of "/tone <arg>" from user_id: the tone is set, the reply sent and
\* the change stored.
HandleTone(user_id, arg) ==
    /\ gwInit
    /\ gwUpdates < MaxUpdates
    /\ user_tones' = _handle_tone(user_tones, user_id, arg).user_tones
    /\ toneSet' = [toneSet EXCEPT ![user_id] = IF ToneNamed(arg) # "invalid" THEN ToneNamed(arg) ELSE @]
    /\ toneKept' = [toneKept EXCEPT ![user_id] = IF ToneNamed(arg) # "invalid" THEN ToneNamed(arg) ELSE @]
    /\ gwUpdates' = gwUpdates + 1
    /\ UNCHANGED <<forgetting, gwInit, aiInit, openai_client, lora, rate_limits, proc, accepted, bootCalls, healthPassed>>
    /\ UNCHANGED notGW

\* _handle_forget of "/forget" from user_id, up to its awaits of delete_user_data
\* and clear_voice_cache.
HandleForget(user_id) ==
    /\ gwInit
    /\ gwUpdates < MaxUpdates
    /\ user_id \notin forgetting
    /\ forgetting' = forgetting \cup {user_id}
    /\ gwUpdates' = gwUpdates + 1
    /\ UNCHANGED <<gwInit, aiInit, openai_client, lora, user_tones, rate_limits, proc, toneSet, toneKept, accepted, bootCalls, healthPassed>>
    /\ UNCHANGED notGW

\* _handle_forget: delete_user_data and clear_voice_cache have answered (neither
\* raises); the user's tone and cooldowns are dropped and the reply sent.
ForgetDone(user_id) ==
    /\ user_id \in forgetting
    /\ forgetting' = forgetting \ {user_id}
    /\ user_tones' = [user_tones EXCEPT ![user_id] = "unset"]
    /\ rate_limits' = [rate_limits EXCEPT ![user_id] = [a \in CooldownActions |-> 0]]
    /\ toneKept' = [toneKept EXCEPT ![user_id] = "friendly"]
    /\ UNCHANGED <<gwInit, aiInit, openai_client, lora, proc, toneSet, gwUpdates, accepted, bootCalls, healthPassed>>
    /\ UNCHANGED notGW

\* A gateway event of user_id whose handler starts with the cooldown test of the
\* action class: a text message ("message"), /ask, /dream, /analyze, /search,
\* /news or /web ("ask"), a voice message ("voice").  Only the test is followed
\* here: nothing the handler does after it reads or writes rate_limits.
HandleEvent(user_id, action) ==
    /\ gwInit
    /\ gwUpdates < MaxUpdates
    /\ LET c == _check_rate_limit(rate_limits, user_id, action, now)
       IN  /\ rate_limits' = c.rate_limits
           /\ accepted' = Accepted(accepted, user_id, action, c.allowed, now)
    /\ gwUpdates' = gwUpdates + 1
    /\ UNCHANGED <<forgetting, gwInit, aiInit, openai_client, lora, user_tones, proc, toneSet, toneKept, bootCalls, healthPassed>>
    /\ UNCHANGED notGW

(***************************************************************************)
(* main.py, eva_webhook.py: the /webhook endpoints                         *)
(***************************************************************************)

\* Bound of the webhook model: the number of /webhook requests.
MaxRequests == 3

\* The secrets TELEGRAM_WEBHOOK_SECRET may hold, and what a request carries in
\* X-Telegram-Bot-Api-Secret-Token ("missing": no such header).
Secrets == {"s1"}
Headers == {"missing", "s1", "s2"}

\* main.py telegram_webhook: 503 without the bot, 403 when a secret is set and
\* the header is not the secret, then the update is parsed and handed to
\* telegram_app.process_update (parses: the body is an update), 500 on an exception.
telegram_webhook(app, secret, header, parses) ==
    IF ~app THEN [status |-> 503, processed |-> FALSE]
    ELSE IF secret # "none" /\ header # secret THEN [status |-> 403, processed |-> FALSE]
    ELSE IF ~parses THEN [status |-> 500, processed |-> FALSE]
    ELSE [status |-> 200, processed |-> TRUE]

\* eva_webhook.py webhook_handler: 503 before the services are up, then the body
\* is parsed and handed to telegram_gateway.process_webhook_update, 500 on an
\* exception.  The request's headers are not read.
webhook_handler(initialized, secret, header, parses) ==
    IF ~initialized THEN [status |-> 503, processed |-> FALSE]
    ELSE IF ~parses THEN [status |-> 500, processed |-> FALSE]
    ELSE [status |-> 200, processed |-> TRUE]

WHInit ==
    /\ webhook_secret = "none"
    /\ telegram_app = FALSE
    /\ services_initialized = FALSE
    /\ whLast = [entry |-> "none", header |-> "missing", status |-> 0, processed |-> FALSE]
    /\ whProcessed = {}
    /\ whRequests = 0

\* The deployment sets TELEGRAM_WEBHOOK_SECRET before an application starts.
Configure(secret) ==
    /\ webhook_secret = "none"
    /\ ~telegram_app /\ ~services_initialized /\ whRequests = 0
    /\ webhook_secret' = secret
    /\ UNCHANGED <<telegram_app, services_initialized, whLast, whProcessed, whRequests>>
    /\ UNCHANGED notWH

\* main.py lifespan: the bot is built when TELEGRAM_BOT_TOKEN is set (token).
Lifespan(token) ==
    /\ ~telegram_app
    /\ telegram_app' = token
    /\ UNCHANGED <<webhook_secret, services_initialized, whLast, whProcessed, whRequests>>
    /\ UNCHANGED notWH

\* eva_webhook.py initialize_services (ok: no service raised).
InitializeServices(ok) ==
    /\ ~services_initialized
    /\ services_initialized' = ok
    /\ UNCHANGED <<webhook_secret, telegram_app, whLast, whProcessed, whRequests>>
    /\ UNCHANGED notWH

\* The record of a /webhook request and its answer.
Requested(entry, header, r) ==
    /\ whLast' = [entry |-> entry, header |-> header, status |-> r.status, processed |-> r.processed]
    /\ whProcessed' = IF r.processed THEN whProcessed \cup {[entry |-> entry, header |-> header]}
                                     ELSE whProcessed
    /\ whRequests' = whRequests + 1

\* A POST /webhook to main.py.
TelegramWebhook(header, parses) ==
    /\ whRequests < MaxRequests
    /\ Requested("main", header, telegram_webhook(telegram_app, webhook_secret, header, parses))
    /\ UNCHANGED <<webhook_secret, telegram_app, services_initialized>>
    /\ UNCHANGED notWH

\* A POST /webhook to eva_webhook.py.
WebhookHandler(header, parses) ==
    /\ whRequests < MaxRequests
    /\ Requested("eva_webhook", header,
                 webhook_handler(services_initialized, webhook_secret, header, parses))
    /\ UNCHANGED <<webhook_secret, telegram_app, services_initialized>>
    /\ UNCHANGED notWH

(***************************************************************************)
(* Claims about the rate limiter                                           *)
(***************************************************************************)

\* The number of admitted calls of redis key rk with timestamps in [t, t + window).
\* A caller is refused and asks when to come back: its is_allowed(key, limit_type)
\* returns False, and it calls get_reset_time(key, limit_type) in the same second.
\* seen is the number of calls admitted for the key so far.
RefusedRequest(key, limit_type) ==
    /\ rlReset = NoReset
    /\ LET rk == RedisKey(limit_type, key)
           r == is_allowed(zset[rk], expireAt[rk], limit_type, now)
       IN  /\ ~r.result
           /\ zset' = [zset EXCEPT ![rk] = r.z]
           /\ rlLast' = [key |-> key, type |-> limit_type, at |-> now, result |-> FALSE,
                         raised |-> "none"]
           /\ rlReset' = [key |-> key, type |-> limit_type, at |-> now,
                          reset |-> get_reset_time(r.z, r.exp, limit_type, now),
                          seen |-> Len(admitted[rk]), retried |-> FALSE, quiet |-> FALSE,
                          result |-> FALSE]
    /\ UNCHANGED <<now, expireAt, admitted, rlCalls, rlTicks, rlTask>>
    /\ UNCHANGED notRL

\* The refused caller comes back at the time get_reset_time returned: the clock
\* reaches that time and the caller calls is_allowed(key, limit_type) again, no
\* other call being in flight.  quiet records that no call was admitted for the
\* key since the refusal.
RetryAtReset ==
    /\ rlReset # NoReset
    /\ ~rlReset.retried
    /\ rlReset.reset >= now
    /\ \A t \in RLTasks : rlTask[t].pc = "idle"
    /\ LET rk == RedisKey(rlReset.type, rlReset.key)
           r == is_allowed(zset[rk], expireAt[rk], rlReset.type, rlReset.reset)
       IN  /\ now' = rlReset.reset
           /\ zset' = [zset EXCEPT ![rk] = r.z]
           /\ expireAt' = [expireAt EXCEPT ![rk] = r.exp]
           /\ admitted' = [admitted EXCEPT ![rk] = IF r.result THEN Append(@, rlReset.reset) ELSE @]
           /\ rlLast' = [key |-> rlReset.key, type |-> rlReset.type, at |-> rlReset.reset,
                         result |-> r.result, raised |-> "none"]
           /\ rlReset' = [rlReset EXCEPT !.retried = TRUE,
                                         !.quiet = (Len(admitted[rk]) = rlReset.seen),
                                         !.result = r.result]
    /\ UNCHANGED <<rlCalls, rlTicks, rlTask>>
    /\ UNCHANGED notRL

AdmittedIn(rk, t, window) ==
    Cardinality({i \in DOMAIN admitted[rk] : t <= admitted[rk][i] /\ admitted[rk][i] < t + window})

\* C1 (as claimed): with calls made one at a time, for every key and limit type the
\* number of calls that returned True with timestamps inside any span of `window`
\* seconds is at most the configured limit.
C1_AdmittedWithinLimit ==
    \A ty \in LimitTypes, k \in Keys :
        \A i \in DOMAIN admitted[RedisKey(ty, k)] :
            AdmittedIn(RedisKey(ty, k), admitted[RedisKey(ty, k)][i], WindowOf(ty)) <= LimitOf(ty)

\* C20: the rate limiter fails open: a call of is_allowed during which a Redis
\* command raises returns True, for every key and limit type and however many
\* requests were admitted before.
C20_FailOpen ==
    rlLast.raised # "none" => rlLast.result = TRUE

\* A call was allowed on a Redis failure although the limit was reached: three
\* voice calls admitted in the window, then a fourth whose pipeline raised.
C20_Witness ==
    /\ rlLast.raised = "pipeline"
    /\ rlLast.result = TRUE
    /\ LET rk == RedisKey(rlLast.type, rlLast.key)
       IN  zcard(zremrangebyscore(Live(zset[rk], expireAt[rk], now), 0, now - WindowOf(rlLast.type)))
               >= LimitOf(rlLast.type)

\* C14: is_allowed counts and records atomically: however the Redis commands of
\* concurrent calls on the same key and limit type interleave, the number of calls
\* admitted within one window is at most the limit.
C14_AtomicCountAndRecord ==
    \A ty \in LimitTypes, k \in Keys :
        LET rk == RedisKey(ty, k)
        IN  \A i \in DOMAIN admitted[rk] :
                Cardinality({j \in DOMAIN admitted[rk] :
                                 /\ admitted[rk][i] <= admitted[rk][j]
                                 /\ admitted[rk][j] < admitted[rk][i] + WindowOf(ty)}) <= LimitOf(ty)

\* C14 for calls that read the clock in different seconds only.
C14_DistinctSeconds ==
    \A ty \in LimitTypes, k \in Keys :
        LET rk == RedisKey(ty, k)
        IN  (\A i, j \in DOMAIN admitted[rk] : i # j => admitted[rk][i] # admitted[rk][j])
                => \A i \in DOMAIN admitted[rk] : AdmittedIn(rk, admitted[rk][i], WindowOf(ty)) <= LimitOf(ty)

\* C22: get_reset_time returns the time at which the limit resets: when
\* is_allowed(key, t) returned False, the caller read get_reset_time(key, t), and
\* no call was admitted for the key afterwards, the is_allowed(key, t) call made at
\* the time get_reset_time returned returns True.
C22_ResetTimeAdmits ==
    (rlReset.retried /\ rlReset.quiet) => rlReset.result

\* C22 for a key whose calls were all made one at a time: every call admitted
\* before the refusal read the clock in a second of its own and the sorted set
\* held no more entries than the limit.
C22_ResetTimeOneAtATime ==
    (rlReset.retried /\ rlReset.quiet /\ rlReset.seen <= LimitOf(rlReset.type))
        => rlReset.result

\* The refused caller came back at the reset time, after the refusal, and was let in.
C22_Witness ==
    /\ rlReset.retried
    /\ rlReset.quiet
    /\ rlReset.result
    /\ rlReset.reset > rlReset.at

(***************************************************************************)
(* Claims about the cost guard                                             *)
(***************************************************************************)

\* C15: the cost guard fails safe: with the Redis store unavailable check_budget
\* denies the request, for every user and every estimated cost.
C15_FailSafe ==
    cgDownLast.user # "none" => ~cgDownLast.ok

\* C19: when every record_usage(user, c) follows a check_budget(user, c) that
\* returned True, the user's recorded daily total never exceeds the daily user
\* limit, however the concurrent requests of the user interleave between their
\* check and their record.
C19_DailyLimitKept ==
    \A u \in Users : cost.user_daily[u] <= daily_user

\* The four totals of a check, in the order check_budget is claimed to test them,
\* with the limit and the message of each.
C3_Order(b) ==
    << <<b.user_daily, daily_user, "Daily limit exceeded">>,
       <<b.user_monthly, monthly_user, "Monthly limit exceeded">>,
       <<b.global_daily, daily_global, "System daily limit exceeded">>,
       <<b.global_monthly, monthly_global, "System monthly limit exceeded">> >>

\* C3: check_budget(user, est) returns (True, "Budget available") exactly when
\* current + est does not exceed the limit for all four totals; otherwise it
\* returns False with the message of the first exceeded limit in the order user
\* daily, user monthly, global daily, global monthly; it changes no stored total.
C3_CheckBudget ==
    cgLast.user # "none" =>
        LET o == C3_Order(cgLast.before)
            exceeded == {i \in 1..4 : o[i][1] + cgLast.est > o[i][2]}
        IN  /\ cgLast.ok = (exceeded = {})
            /\ exceeded = {} => cgLast.msg = "Budget available"
            /\ exceeded # {} =>
                 \E i \in exceeded : /\ \A j \in exceeded : i <= j
                                     /\ cgLast.msg = o[i][3]
            /\ cgLast.after = cgLast.before

\* C3 witness: a check that passed the three earlier limits at their boundary or
\* below and was refused on the global monthly total.
C3_Witness ==
    /\ cgLast.user # "none"
    /\ ~cgLast.ok
    /\ cgLast.msg = "System monthly limit exceeded"
    /\ cgLast.before.user_monthly + cgLast.est = monthly_user

(***************************************************************************)
(* Claims about the model cache                                            *)
(***************************************************************************)

Range(l) == {l[i] : i \in DOMAIN l}

\* C8 (as claimed): after delete_user_data for user u has completed successfully,
\* no memory stored for u before it is returned by a later search_memories(u, ...)
\* or get_recent_context(u, ...).
C8_ForgottenNotReturned ==
    memLast.op \in {"search", "context"} =>
        Range(memLast.result) \cap memForgotten[memLast.user] = {}

BackendRequests == {"local_req", "hosted_req"}

\* C2 (as claimed): every request to the hosted backend made while handling a
\* user's message comes after a CostGuard.check_budget of the same handler that
\* returned True.  (A handler that called check_budget would have "check_budget" in
\* its history; no step of _handle_message, _process_text_message or
\* generate_response calls it.)
C2_HostedAfterBudgetCheck ==
    \A r \in Handlers :
        proc[r].last.ev = "hosted_req" => "check_budget" \in proc[r].did

\* C5: the hosted API is called only after a local attempt of the same request has
\* failed and only if an OpenAI client is set; when a local attempt succeeds the
\* result has source "local_gpu", generate_response returns, and no backend is
\* called afterwards in that request.
C5_LocalFirst ==
    \A r \in Handlers :
        /\ proc[r].last.ev = "hosted_req" => openai_client /\ "local_failed" \in proc[r].did
        /\ proc[r].last.ev = "local_ok" => proc[r].source = "local_gpu" /\ proc[r].pc = "store_bot"
        /\ "local_ok" \in proc[r].did => proc[r].last.ev \notin BackendRequests

\* C5 witness: a request to the hosted API has just been sent, after a local
\* attempt of the same request failed.
C5_Witness ==
    \E r \in Handlers :
        /\ proc[r].last.ev = "hosted_req"
        /\ "local_failed" \in proc[r].did
        /\ openai_client

\* C6 (as claimed): the adapter named in a local inference request is the adapter
\* of the tone passed to that generate_response call.
C6_AdapterOfTone ==
    \A r \in Handlers :
        (proc[r].last.ev = "local_req" /\ proc[r].last.adapter # "None") =>
            proc[r].last.adapter = adapter_name(proc[r].tone)

\* C7 (as claimed): the system prompt of every backend request for a user's message
\* is the template of the tone most recently set by a valid /tone of that user
\* (friendly if none was set), the tone being the one in force when the handler
\* reads it.
C7_PromptOfLastSetTone ==
    \A r \in Handlers :
        /\ proc[r].last.ev = "local_req" => proc[r].last.prompt = tone_prompts_local[proc[r].toneSet]
        /\ proc[r].last.ev = "hosted_req" => proc[r].last.prompt = tone_prompts_openai[proc[r].toneSet]

\* C7 (amended): the system prompt of every backend request for a user's message is
\* the template of the tone most recently set by a valid /tone of that user and not
\* cleared since by a /forget of that user (friendly if there is none), the tone
\* being the one in force when the handler reads it; an invalid /tone argument and
\* other users' commands leave it unchanged; a tone outside {friendly, formal,
\* gen-z} has the friendly template.
C7_PromptOfKeptTone ==
    /\ \A r \in Handlers :
        /\ proc[r].last.ev = "local_req" => proc[r].last.prompt = tone_prompts_local[proc[r].toneKept]
        /\ proc[r].last.ev = "hosted_req" => proc[r].last.prompt = tone_prompts_openai[proc[r].toneKept]
    /\ \A t \in ToneArgs \cup {"", "None"} :
        /\ _format_for_local_model(t) = tone_prompts_local["friendly"]
        /\ _format_for_openai(t) = tone_prompts_openai["friendly"]

\* C7 witness: a backend request has just been sent for a user who had set the
\* formal tone and whose /forget then cleared it.
C7_Witness ==
    \E r \in Handlers :
        /\ proc[r].last.ev \in BackendRequests
        /\ proc[r].toneSet = "formal"
        /\ proc[r].toneKept = "friendly"

\* C10 (as claimed): for every admitted text message the stages occur in the order
\* rate-limit check, memory retrieval, LLM call, memory persistence: no memory
\* write for the message happens before the context retrieval and the LLM call
\* for that message.
C10_PersistAfterLLM ==
    \A r \in Handlers :
        /\ proc[r].last.ev = "get_recent_context" => "check_rate_limit" \in proc[r].did
        /\ proc[r].last.ev \in BackendRequests => "get_recent_context" \in proc[r].did
        /\ proc[r].last.ev \in {"store_user_message", "store_bot_response"} =>
              /\ "get_recent_context" \in proc[r].did
              /\ proc[r].did \cap BackendRequests # {}

\* The calls and answers of a handler so far.
History(r) == proc[r].did \cup {proc[r].last.ev}

\* C12: generate_response never raises: whatever the LoRA service, the reasoning
\* service, the local endpoint and the hosted API do, it returns a dict with
\* success and response; success is True exactly when a backend attempt
\* succeeded, and otherwise the result is the fixed apology with success False
\* and source "fallback".
C12_NeverRaises ==
    \A r \in Handlers :
        proc[r].source # "none" =>
            LET res == generate_response_result(proc[r].source)
            IN  /\ ~res.raised
                /\ res.success <=> (History(r) \cap {"local_ok", "hosted_ok"} # {})
                /\ ~res.success =>
                       res = [raised |-> FALSE, success |-> FALSE, response |-> Apology,
                              source |-> "fallback"]

\* Both backends were tried twice and failed, with the LoRA service down: the
\* caller gets the final fallback.
C12_Witness ==
    \E r \in Handlers :
        /\ proc[r].pc = "reply"
        /\ proc[r].source = "fallback"
        /\ {"local_failed", "hosted_failed"} \subseteq History(r)
        /\ ~lora.initialized

\* C13: with a webhook secret configured, a /webhook request whose
\* X-Telegram-Bot-Api-Secret-Token header is missing or is not the secret is
\* rejected and its update never reaches the bot's update processing, at the
\* entry point of main.py and at that of eva_webhook.py.
C13_SecretVerified ==
    webhook_secret # "none" =>
        /\ \A q \in whProcessed : q.header = webhook_secret
        /\ (whLast.entry # "none" /\ whLast.header # webhook_secret) =>
               whLast.status \in {403, 503}

\* C13 at the entry point of main.py alone: there the header is verified.
C13_MainVerified ==
    webhook_secret # "none" =>
        /\ \A q \in whProcessed : q.entry = "main" => q.header = webhook_secret
        /\ (whLast.entry = "main" /\ whLast.header # webhook_secret) =>
               whLast.status \in {403, 503}

\* C16: when the vLLM health check passes and the adapter load succeeds, the first
\* call of LoRAService.initialize finishes after one health check and one load of
\* the default adapter, with _initialized True and current_adapter "friendly".
C16_InitializeOnce ==
    (proc["boot"].pc = "ai_init" /\ ~bootCalls.failed) =>
        /\ bootCalls.checks = 1
        /\ bootCalls.loads = 1
        /\ lora.initialized
        /\ lora.current_adapter = "friendly"

\* No load_adapter call is under way: none awaits vLLM's answer.
LoRAQuiet == \A r \in Procs : proc[r].pc \notin {"health", "unload", "load"}

\* C17: get_current_adapter returns the personality whose adapter is loaded: after
\* any load_adapter calls, whatever the outcomes of vLLM's loads and unloads,
\* current_adapter is None or the adapter of current_adapter is marked loaded.
C17_CurrentIsLoaded ==
    LoRAQuiet => (lora.current_adapter = "None" \/ lora.loaded[lora.current_adapter])

\* C18: after any load_adapter calls, whatever the outcomes of vLLM's loads and
\* unloads, at most one personality adapter is marked loaded.
C18_OneLoaded ==
    LoRAQuiet => Cardinality({a \in Personalities : lora.loaded[a]}) <= 1

\* C21: LoRA unavailability never fails a request: as long as every health check
\* of vLLM has failed, no call raises, current_adapter stays None, no load_adapter
\* call gets as far as vLLM or returns True (nothing is marked loaded, no
\* generation parameters are applied), and every local inference request is sent
\* without an adapter_name.
C21_LoRAUnavailable ==
    ~healthPassed =>
        /\ ~lora.initialized
        /\ lora.current_adapter = "None"
        /\ \A a \in Personalities : ~lora.loaded[a]
        /\ \A r \in Procs :
               /\ proc[r].pc \notin {"unload", "load", "apply"}
               /\ ~generate_response_result(
                       IF proc[r].source = "none" THEN "fallback" ELSE proc[r].source).raised
               /\ proc[r].last.ev = "local_req" => proc[r].last.adapter = "None"

\* Every health check has failed, at start-up and in the handler, and the handler
\* has sent its request to the local endpoint.
C21_Witness ==
    /\ ~healthPassed
    /\ gwInit
    /\ \E r \in Handlers :
           /\ proc[r].last.ev = "local_req"
           /\ proc[r].last.adapter = "None"
           /\ "get_recent_context" \in proc[r].did

\* The cooldown of an action class, as the gateway documents it.
CooldownOf(action) ==
    CASE action = "message" -> 30
      [] action = "ask" -> 15
      [] action = "voice" -> 60

\* C11: for every user and action class, any two accepted actions of the class
\* are at least the class's cooldown apart (30 s messages, 15 s ask-class
\* commands, 60 s voice), whatever gateway events, /forget included, come between.
C11_CooldownApart ==
    \A u \in GwUsers, a \in CooldownActions :
        \A i, j \in DOMAIN accepted[u][a] :
            i < j => accepted[u][a][j] - accepted[u][a][i] >= CooldownOf(a)

(***************************************************************************)
(* Specifications                                                          *)
(***************************************************************************)

RLNext ==
    \/ \E k \in Keys, ty \in LimitTypes : IsAllowed(k, ty)
    \/ \E d \in TickSteps : Tick(d)

\* The rate limiter with calls that run side by side.
RLCNext ==
    \/ \E t \in RLTasks, k \in Keys, ty \in ConcurrentTypes : PipelineExecute(t, k, ty)
    \/ \E t \in RLTasks : Zadd(t)
    \/ \E t \in RLTasks : Expire(t)
    \/ \E d \in TickSteps : Tick(d)

Init == RLInit /\ CGInit /\ MMInit /\ MemInit /\ GWInit /\ WHInit

SpecRL == Init /\ [][RLNext]_vars

SpecRLC == Init /\ [][RLCNext]_vars

\* The rate limiter with Redis commands that raise.
RLFNext ==
    \/ \E k \in Keys, ty \in FailingTypes : IsAllowed(k, ty)
    \/ \E k \in Keys, ty \in FailingTypes, c \in RedisCommands : IsAllowedFailing(k, ty, c)
    \/ Tick(1)

SpecRLF == Init /\ [][RLFNext]_vars

\* The rate limiter with calls that run side by side and a caller that is refused
\* and comes back at the reset time.
RLRNext ==
    \/ \E t \in RLTasks, k \in Keys, ty \in ConcurrentTypes : PipelineExecute(t, k, ty)
    \/ \E t \in RLTasks : Zadd(t)
    \/ \E t \in RLTasks : Expire(t)
    \/ Tick(1)
    \/ \E k \in Keys, ty \in ConcurrentTypes : RefusedRequest(k, ty)
    \/ RetryAtReset

SpecRLR == Init /\ [][RLRNext]_vars

\* The same caller with calls made one at a time.
RLSNext ==
    \/ \E k \in Keys, ty \in LimitTypes : IsAllowed(k, ty)
    \/ \E d \in TickSteps : Tick(d)
    \/ \E k \in Keys, ty \in LimitTypes : RefusedRequest(k, ty)
    \/ RetryAtReset

SpecRLS == Init /\ [][RLSNext]_vars

CGNext ==
    \/ \E u \in Users, e \in Estimates : CheckBudget(u, e)
    \/ \E u \in Users, c \in CostSteps : RecordUsage(u, c)
    \/ NewDay
    \/ NewMonth

SpecCG == Init /\ [][CGNext]_vars

\* The cost guard with a Redis store that goes down and comes back.
CGDNext ==
    \/ RedisDown
    \/ RedisUp
    \/ \E u \in Users, e \in Estimates : CheckBudget(u, e)
    \/ \E u \in Users, c \in CostSteps : RecordUsage(u, c)
    \/ \E u \in Users, e \in Estimates : CheckBudgetDown(u, e)
    \/ \E u \in Users, c \in CostSteps : RecordUsageDown(u, c)

SpecCGD == Init /\ [][CGDNext]_vars

\* The cost guard with requests that run side by side, each checking the budget
\* before the call it pays for and recording the cost after it.
CGCNext ==
    \/ \E t \in CGTasks, u \in Users, c \in RequestCosts : RequestCheck(t, u, c)
    \/ \E t \in CGTasks : RequestRecord(t)
    \/ NewDay

SpecCGC == Init /\ [][CGCNext]_vars

MMNext ==
    \/ \E t \in Tasks, n \in ModelNames : GetEmbeddingModel(t, n)
    \/ \E t \in Tasks : AcquireLock(t)
    \/ \E t \in Tasks, ok \in BOOLEAN : LoadModel(t, ok)
    \/ ClearCache

SpecMM == Init /\ [][MMNext]_vars

MemNext ==
    \/ \E u \in Users, chromaOk \in BOOLEAN, redisOk \in BOOLEAN : StoreMemory(u, chromaOk, redisOk)
    \/ \E u \in Users, l \in ContextLimits, fallbackOk \in BOOLEAN : GetRecentContext(u, l, fallbackOk)
    \/ \E u \in Users, l \in SearchLimits : SearchMemories(u, l)
    \/ \E u \in Users : DeleteUserData(u)
    \/ \E u \in Users : ExpireCache(u)

SpecMem == Init /\ [][MemNext]_vars

GWNext ==
    \/ \E ok \in BOOLEAN, client \in BOOLEAN : StartGateway(ok, client)
    \/ \E ok \in BOOLEAN : FinishGateway(ok)
    \/ \E r \in Handlers, u \in MsgUsers, a \in GwActions : HandleMessage(r, u, a)
    \/ \E r \in Handlers : StoreUserMessage(r)
    \/ \E r \in Handlers : GetContext(r)
    \/ \E r \in Procs, ok \in BOOLEAN : CheckVllmServerDone(r, ok)
    \/ \E r \in Procs, ok \in BOOLEAN : UnloadDone(r, ok)
    \/ \E r \in Procs, ok \in BOOLEAN : LoadDone(r, ok)
    \/ \E r \in Handlers : ApplyDone(r)
    \/ \E r \in Handlers, o \in {"response", "none", "raise"} : ReasoningDone(r, o)
    \/ \E r \in Handlers, ok \in BOOLEAN : BackendDone(r, ok)
    \/ \E r \in Handlers : StoreBotResponse(r)
    \/ \E r \in Handlers : Reply(r)
    \/ \E u \in GwUsers, arg \in ToneArgs : HandleTone(u, arg)
    \/ \E u \in GwUsers : HandleForget(u)
    \/ \E u \in GwUsers : ForgetDone(u)

SpecGW == Init /\ [][GWNext]_vars

\* The gateway's cooldowns: its start-up, then events of every class, /forget
\* commands and the clock.
CDNext ==
    \/ \E ok \in BOOLEAN, client \in BOOLEAN : StartGateway(ok, client)
    \/ \E ok \in BOOLEAN : CheckVllmServerDone("boot", ok)
    \/ \E ok \in BOOLEAN : LoadDone("boot", ok)
    \/ \E ok \in BOOLEAN : FinishGateway(ok)
    \/ \E u \in GwUsers, a \in CooldownActions : HandleEvent(u, a)
    \/ \E u \in GwUsers : HandleForget(u)
    \/ \E u \in GwUsers : ForgetDone(u)
    \/ \E d \in CooldownSteps : Tick(d)

SpecCD == Init /\ [][CDNext]_vars

WHNext ==
    \/ \E secret \in Secrets : Configure(secret)
    \/ \E token \in BOOLEAN : Lifespan(token)
    \/ \E ok \in BOOLEAN : InitializeServices(ok)
    \/ \E h \in Headers, parses \in BOOLEAN : TelegramWebhook(h, parses)
    \/ \E h \in Headers, parses \in BOOLEAN : WebhookHandler(h, parses)

SpecWH == Init /\ [][WHNext]_vars

====
